---- MODULE Spec2Model ----
(***************************************************************************)
(* Request admission (rate limiter, bearer-token guard, role check, route  *)
(* table, middleware chaining, panic recovery), the response envelopes,    *)
(* and the OTP credential lifecycle of imrany/messaging.                   *)
(*                                                                         *)
(* Time is counted in whole seconds.  Strings that the code parses (the    *)
(* Authorization header) are sequences of one-character strings, so that   *)
(* strings.SplitN is computed and not assumed.                             *)
(***************************************************************************)
EXTENDS Integers, Sequences, FiniteSets, TLC

VARIABLES
    now,                \* time.Now(), seconds since the middleware was built
    requestsPerMinute,  \* RateLimitMiddleware's parameter
    clients,            \* map[string]*client of RateLimitMiddleware: ip -> [requests, lastReset]
    resp,               \* the response to the request handled last by the rate limiter
    nreq,               \* number of requests handled so far
    served,             \* history: per ip, requests handled since the bucket's last reset
    passed,             \* history: per ip, those of them handed to the next handler
    heap,               \* concurrent handlers: the client objects allocated, id -> [requests, lastReset]
    cmap,               \* concurrent handlers: the clients map, ip -> id of a client object
    pc,                 \* concurrent handlers: where each handler invocation stands
    loc,                \* concurrent handlers: each invocation's ip, its pointer c and the count it read
    admits,             \* history: the invocations that reached next, with the window they were counted in
    fault,              \* the Go runtime stopped the process (concurrent map access)
    req,                \* the request in flight through a middleware chain
    chain,              \* the middlewares wrapped around its handler, outermost first
    pos,                \* the middleware of the chain entered next; Len(chain) + 1 is the handler
    trace,              \* history: what each middleware entered so far did with the request
    gresp,              \* the status written to the response, 0 while none is written
    handled,            \* the handler was invoked
    otpStore,           \* the OTP records held, at most one per (email, purpose)
    nissue,             \* number of Issue calls so far; the n-th record carries id n
    nverify,            \* number of Verify calls so far
    vres,               \* the last Verify call: its inputs, its result, the record it accepted, the issuances before it
    lastIssued,         \* history: per (email, purpose), the code and id of the latest issuance
    retired,            \* history: the records that a later Issue superseded
    accepted,           \* history: per record id, how often Verify reported it Valid
    recent,             \* history: per ip, the times of the requests handed to next during the last minute
    sendRes,            \* the last SendOTP or resend call: what the caller was told, and the record it is about
    actx,               \* the request context handed to the identity accessors
    ares,               \* what the accessor called last returned
    errIn,              \* the failure a handler reports: its kind and its message
    wire,               \* the ResponseWriter of that request: the status line written (0 while none), the Content-Type sent, the envelope encoded
    listed,             \* the middlewares as they were listed in the call of ChainMiddleware
    panicState,         \* "none", or what became of the handler's panic: "recovered", "escaped"
    hbody               \* the envelope the handler wrote: [success, message]

clockVars == <<now, requestsPerMinute>>
rateVars == <<clients, resp, nreq, served, passed, recent>>
raceVars == <<heap, cmap, pc, loc, admits, fault>>

chainVars == <<req, chain, pos, trace, gresp, handled>>

otpVars == <<otpStore, nissue, nverify, vres, lastIssued, retired, accepted>>

deliveryVars == <<sendRes>>
accessVars == <<actx, ares>>
respondVars == <<errIn, wire>>
serveVars == <<listed, panicState, hbody>>

auxVars == <<deliveryVars, accessVars, respondVars, serveVars>>

vars == <<clockVars, rateVars, raceVars, chainVars, otpVars, auxVars>>

----------------------------------------------------------------------------
(* Bounds *)

MaxLimit == 2
MaxTime == 124
MaxRequests == 7
NProcs == 3
MaxIssues == 2
MaxVerifies == 2
MaxOtpTime == 301
MaxChain == 3

(* time.Minute, in seconds *)
Minute == 60

StatusOK == 200
StatusTooManyRequests == 429

ClientKeys == {"A", "B"}

\* the gaps between two observations of the clock: 30+30 is exactly one
\* minute, 30+31 is one second more
TickSteps == {30, 31}

Min(a, b) == IF a <= b THEN a ELSE b

----------------------------------------------------------------------------
(* RateLimitMiddleware, requests handled one at a time *)

NoResp == [ip |-> "", status |-> 0, next |-> FALSE, wasLimited |-> FALSE]

\* &client{requests: 0, lastReset: time.Now()}
NewClient(t) == [requests |-> 0, lastReset |-> t]

\* time.Since(c.lastReset) > time.Minute
WindowElapsedAtMinute(c, t) == t - c.lastReset >= Minute
WindowElapsed(c, t) == t - c.lastReset > Minute

\* c.requests >= requestsPerMinute
LimitReachedOffByOne(c, limit) == c.requests > limit
LimitReached(c, limit) == c.requests >= limit

\* a lookup that hands every ip the bucket created first
GetOrCreateShared(cl, ip, t) ==
    IF DOMAIN cl # {} THEN cl[CHOOSE k \in DOMAIN cl : TRUE] ELSE NewClient(t)

\* c, exists := clients[ip]; if !exists { c = &client{...}; clients[ip] = c }
GetOrCreate(cl, ip, t) == IF ip \in DOMAIN cl THEN cl[ip] ELSE NewClient(t)

\* if time.Since(c.lastReset) > time.Minute { c.requests = 0; c.lastReset = time.Now() }
ResetIfElapsed(c, t) == IF WindowElapsed(c, t) THEN [requests |-> 0, lastReset |-> t] ELSE c

\* a handler that restarts the window of a request it rejects
RateLimitServePenalize(cl, ip, t, limit) ==
    LET c0 == GetOrCreate(cl, ip, t)
        c1 == ResetIfElapsed(c0, t)
        rejected == LimitReached(c1, limit)
        c2 == IF rejected THEN [c1 EXCEPT !.lastReset = t]
                          ELSE [c1 EXCEPT !.requests = @ + 1]
    IN  [clients |-> [k \in DOMAIN cl \cup {ip} |-> IF k = ip THEN c2 ELSE cl[k]],
         status  |-> IF rejected THEN StatusTooManyRequests ELSE StatusOK,
         next    |-> ~rejected,
         fresh   |-> (ip \notin DOMAIN cl) \/ WindowElapsed(c0, t)]

\* The handler of RateLimitMiddleware on one request from ip at time t:
\* the bucket it leaves in the map, the status written, whether next ran,
\* and whether the bucket was created or reset by this request.
RateLimitServe(cl, ip, t, limit) ==
    LET c0 == GetOrCreate(cl, ip, t)
        c1 == ResetIfElapsed(c0, t)
        rejected == LimitReached(c1, limit)
        c2 == IF rejected THEN c1 ELSE [c1 EXCEPT !.requests = @ + 1]
    IN  [clients |-> [k \in DOMAIN cl \cup {ip} |-> IF k = ip THEN c2 ELSE cl[k]],
         status  |-> IF rejected THEN StatusTooManyRequests ELSE StatusOK,
         next    |-> ~rejected,
         fresh   |-> (ip \notin DOMAIN cl) \/ WindowElapsed(c0, t)]

\* requestsPerMinute is a plain int: zero and negative limits are accepted
ClockInit ==
    /\ now = 0
    /\ requestsPerMinute \in (-1)..MaxLimit

ClockIdle ==
    /\ now = 0
    /\ requestsPerMinute = 1

RateInit ==
    /\ clients = << >>
    /\ resp = NoResp
    /\ nreq = 0
    /\ served = [k \in ClientKeys |-> 0]
    /\ passed = [k \in ClientKeys |-> 0]
    /\ recent = [k \in ClientKeys |-> << >>]

\* the admissions that lie within one window's length before time t
WithinWindow(times, t) == SelectSeq(times, LAMBDA a : t - a <= Minute)

Tick(d) ==
    /\ now + d <= MaxTime
    /\ now' = now + d
    /\ recent' = [k \in ClientKeys |-> WithinWindow(recent[k], now + d)]
    /\ UNCHANGED <<requestsPerMinute, clients, resp, nreq, served, passed,
                   raceVars, chainVars, otpVars, auxVars>>

RateLimitRequest(ip) ==
    /\ nreq < MaxRequests
    /\ LET r == RateLimitServe(clients, ip, now, requestsPerMinute)
       IN  /\ clients' = r.clients
           /\ resp' = [ip |-> ip, status |-> r.status, next |-> r.next,
                       wasLimited |-> served[ip] > passed[ip]]
           /\ served' = [served EXCEPT ![ip] = IF r.fresh THEN 1 ELSE @ + 1]
           /\ passed' = [passed EXCEPT ![ip] =
                            (IF r.fresh THEN 0 ELSE @) + (IF r.next THEN 1 ELSE 0)]
           /\ recent' = [recent EXCEPT ![ip] = IF r.next THEN Append(@, now) ELSE @]
    /\ nreq' = nreq + 1
    /\ UNCHANGED <<clockVars, raceVars, chainVars, otpVars, auxVars>>

RaceIdle ==
    /\ heap = << >>
    /\ cmap = << >>
    /\ pc = << >>
    /\ loc = << >>
    /\ admits = {}
    /\ fault = FALSE

NoReq == [method |-> "", path |-> "", header |-> << >>, contentType |-> << >>, ctx |-> << >>]

ChainIdle ==
    /\ req = NoReq
    /\ chain = << >>
    /\ pos = 0
    /\ trace = << >>
    /\ gresp = 0
    /\ handled = FALSE

NoVerify == [email |-> "", purpose |-> "", code |-> "", result |-> "", id |-> 0, issues |-> 0]

OtpInit ==
    /\ otpStore = {}
    /\ nissue = 0
    /\ nverify = 0
    /\ vres = NoVerify
    /\ lastIssued = << >>
    /\ retired = {}
    /\ accepted = [i \in 1..MaxIssues |-> 0]

NoSend == [op |-> "", outcome |-> "", email |-> "", purpose |-> "", code |-> "",
           id |-> 0, at |-> 0, issues |-> 0]

DeliveryIdle == sendRes = NoSend

NoAccess == [key |-> "", v |-> "", err |-> FALSE]

AccessIdle ==
    /\ actx = << >>
    /\ ares = NoAccess

NoErr == [kind |-> "", message |-> ""]

\* ErrorResponse{Error, Message, Code}
NoEnvelope == [error |-> "", message |-> "", code |-> 0]

NoWire == [status |-> 0, contentType |-> "", body |-> NoEnvelope]

RespondIdle ==
    /\ errIn = NoErr
    /\ wire = NoWire

NoBody == [success |-> FALSE, message |-> ""]

ServeIdle ==
    /\ listed = << >>
    /\ panicState = "none"
    /\ hbody = NoBody

AuxIdle == DeliveryIdle /\ AccessIdle /\ RespondIdle /\ ServeIdle

Init == ClockInit /\ RateInit /\ RaceIdle /\ ChainIdle /\ OtpInit /\ AuxIdle

Next ==
    \/ \E d \in TickSteps : Tick(d)
    \/ \E ip \in ClientKeys : RateLimitRequest(ip)

Spec == Init /\ [][Next]_vars

----------------------------------------------------------------------------
(* RateLimitMiddleware, one goroutine per request.  The closure shares the  *)
(* map `clients` and the *client objects it points to, with no lock, so     *)
(* every read and write of them is a step of its own, and so is every      *)
(* evaluation of time.Now(): the time a goroutine read may be stored after  *)
(* the clock, or another goroutine, has moved on.                           *)

Procs == 1..NProcs

NoLoc == [ip |-> "", c |-> 0, n |-> 0, t |-> 0]

RaceInit ==
    /\ heap = << >>
    /\ cmap = << >>
    /\ pc = [p \in Procs |-> "idle"]
    /\ loc = [p \in Procs |-> NoLoc]
    /\ admits = {}
    /\ fault = FALSE

Goto(p, label) == pc' = [pc EXCEPT ![p] = label]

\* The RemoteAddr a goroutine's request may carry.  Goroutines and keys are
\* interchangeable in the handler, so three requests over two keys are either
\* all of one key or two of one key and one of the other.
RaceKeys(p) == IF p = NProcs THEN ClientKeys ELSE {"A"}

\* ip := r.RemoteAddr
Arrive(p, ip) ==
    /\ ~fault /\ pc[p] = "idle"
    /\ loc' = [loc EXCEPT ![p] = [NoLoc EXCEPT !.ip = ip]]
    /\ Goto(p, "lookup")
    /\ UNCHANGED <<clockVars, rateVars, heap, cmap, admits, fault, chainVars, otpVars, auxVars>>

\* c, exists := clients[ip]
Lookup(p) ==
    /\ ~fault /\ pc[p] = "lookup"
    /\ IF loc[p].ip \in DOMAIN cmap
       THEN /\ loc' = [loc EXCEPT ![p].c = cmap[loc[p].ip]]
            /\ Goto(p, "sinceRead")
       ELSE /\ Goto(p, "create")
            /\ UNCHANGED loc
    /\ UNCHANGED <<clockVars, rateVars, heap, cmap, admits, fault, chainVars, otpVars, auxVars>>

\* c = &client{requests: 0, lastReset: time.Now()} : the object is stamped
\* with the clock of this step and is known to this goroutine alone
Create(p) ==
    /\ ~fault /\ pc[p] = "create"
    /\ LET id == Cardinality(DOMAIN heap) + 1
       IN  /\ heap' = [i \in DOMAIN heap \cup {id} |->
                          IF i = id THEN NewClient(now) ELSE heap[i]]
           /\ loc' = [loc EXCEPT ![p].c = id]
    /\ Goto(p, "store")
    /\ UNCHANGED <<clockVars, rateVars, cmap, admits, fault, chainVars, otpVars, auxVars>>

\* clients[ip] = c : the map write, a step after the object was stamped
StoreClient(p) ==
    /\ ~fault /\ pc[p] = "store"
    /\ cmap' = [k \in DOMAIN cmap \cup {loc[p].ip} |->
                   IF k = loc[p].ip THEN loc[p].c ELSE cmap[k]]
    /\ Goto(p, "sinceRead")
    /\ UNCHANGED <<clockVars, rateVars, heap, loc, admits, fault, chainVars, otpVars, auxVars>>

\* A goroutine writes the map while another reads or writes it: the Go
\* runtime may detect it ("fatal error: concurrent map writes") and stop the
\* process, or let both accesses through.
MapFault(p, q) ==
    /\ ~fault /\ p # q
    /\ pc[p] = "store" /\ pc[q] \in {"lookup", "store"}
    /\ fault' = TRUE
    /\ UNCHANGED <<clockVars, rateVars, heap, cmap, pc, loc, admits, chainVars, otpVars, auxVars>>

\* time.Since(c.lastReset) : the argument, the load of c.lastReset
SinceRead(p) ==
    /\ ~fault /\ pc[p] = "sinceRead"
    /\ loc' = [loc EXCEPT ![p].t = heap[loc[p].c].lastReset]
    /\ Goto(p, "since")
    /\ UNCHANGED <<clockVars, rateVars, heap, cmap, admits, fault, chainVars, otpVars, auxVars>>

\* if time.Since(...) > time.Minute : the clock is read inside time.Since,
\* after the load of c.lastReset
CheckWindow(p) ==
    /\ ~fault /\ pc[p] = "since"
    /\ Goto(p, IF WindowElapsed([heap[loc[p].c] EXCEPT !.lastReset = loc[p].t], now)
               THEN "resetCount" ELSE "check")
    /\ loc' = [loc EXCEPT ![p].t = 0]
    /\ UNCHANGED <<clockVars, rateVars, heap, cmap, admits, fault, chainVars, otpVars, auxVars>>

\* c.requests = 0
ResetCount(p) ==
    /\ ~fault /\ pc[p] = "resetCount"
    /\ heap' = [heap EXCEPT ![loc[p].c].requests = 0]
    /\ Goto(p, "resetNow")
    /\ UNCHANGED <<clockVars, rateVars, cmap, loc, admits, fault, chainVars, otpVars, auxVars>>

\* c.lastReset = time.Now() : the right-hand side, the clock read
ResetNow(p) ==
    /\ ~fault /\ pc[p] = "resetNow"
    /\ loc' = [loc EXCEPT ![p].t = now]
    /\ Goto(p, "resetStamp")
    /\ UNCHANGED <<clockVars, rateVars, heap, cmap, admits, fault, chainVars, otpVars, auxVars>>

\* c.lastReset = time.Now() : the store of the time read before
ResetStamp(p) ==
    /\ ~fault /\ pc[p] = "resetStamp"
    /\ heap' = [heap EXCEPT ![loc[p].c].lastReset = loc[p].t]
    /\ loc' = [loc EXCEPT ![p].t = 0]
    /\ Goto(p, "check")
    /\ UNCHANGED <<clockVars, rateVars, cmap, admits, fault, chainVars, otpVars, auxVars>>

\* if c.requests >= requestsPerMinute { respondError(429); return } : the
\* handler's locals end with it
CheckLimit(p) ==
    /\ ~fault /\ pc[p] = "check"
    /\ IF LimitReached(heap[loc[p].c], requestsPerMinute)
       THEN /\ Goto(p, "rejected")
            /\ loc' = [loc EXCEPT ![p] = NoLoc]
       ELSE /\ Goto(p, "incRead")
            /\ UNCHANGED loc
    /\ UNCHANGED <<clockVars, rateVars, heap, cmap, admits, fault, chainVars, otpVars, auxVars>>

\* c.requests++ : the load
IncRead(p) ==
    /\ ~fault /\ pc[p] = "incRead"
    /\ loc' = [loc EXCEPT ![p].n = heap[loc[p].c].requests]
    /\ Goto(p, "incWrite")
    /\ UNCHANGED <<clockVars, rateVars, heap, cmap, admits, fault, chainVars, otpVars, auxVars>>

\* c.requests++ : the store
IncWrite(p) ==
    /\ ~fault /\ pc[p] = "incWrite"
    /\ heap' = [heap EXCEPT ![loc[p].c].requests = loc[p].n + 1]
    /\ loc' = [loc EXCEPT ![p].n = 0]
    /\ Goto(p, "next")
    /\ UNCHANGED <<clockVars, rateVars, cmap, admits, fault, chainVars, otpVars, auxVars>>

\* next.ServeHTTP(w, r), after which the handler's locals end
CallNext(p) ==
    /\ ~fault /\ pc[p] = "next"
    /\ admits' = admits \cup
          {[p |-> p, ip |-> loc[p].ip, window |-> heap[loc[p].c].lastReset]}
    /\ loc' = [loc EXCEPT ![p] = NoLoc]
    /\ Goto(p, "admitted")
    /\ UNCHANGED <<clockVars, rateVars, heap, cmap, fault, chainVars, otpVars, auxVars>>

\* for the interleavings it is enough that the clock can pass a window
RaceTickSteps == {Minute + 1}

RaceTick(d) ==
    /\ ~fault
    /\ Tick(d)

RaceNext ==
    \/ \E d \in RaceTickSteps : RaceTick(d)
    \/ \E p \in Procs : \E ip \in RaceKeys(p) : Arrive(p, ip)
    \/ \E p \in Procs : Lookup(p)
    \/ \E p \in Procs : Create(p)
    \/ \E p \in Procs : StoreClient(p)
    \/ \E p, q \in Procs : MapFault(p, q)
    \/ \E p \in Procs : SinceRead(p)
    \/ \E p \in Procs : CheckWindow(p)
    \/ \E p \in Procs : ResetCount(p)
    \/ \E p \in Procs : ResetNow(p)
    \/ \E p \in Procs : ResetStamp(p)
    \/ \E p \in Procs : CheckLimit(p)
    \/ \E p \in Procs : IncRead(p)
    \/ \E p \in Procs : IncWrite(p)
    \/ \E p \in Procs : CallNext(p)

InitRace == ClockInit /\ RateInit /\ RaceInit /\ ChainIdle /\ OtpInit /\ AuxIdle

SpecRace == InitRace /\ [][RaceNext]_vars

----------------------------------------------------------------------------
(* Strings the code takes apart *)

Bearer == <<"B", "e", "a", "r", "e", "r">>
Space == <<" ">>

\* the index of the first occurrence of ch in s, 0 when there is none
IndexOf(s, ch) ==
    IF \E i \in 1..Len(s) : s[i] = ch
    THEN CHOOSE i \in 1..Len(s) : s[i] = ch /\ \A j \in 1..(i - 1) : s[j] # ch
    ELSE 0

\* strings.SplitN(s, " ", 2)
SplitN2(s) ==
    LET i == IndexOf(s, " ")
    IN  IF i = 0 THEN <<s>> ELSE <<SubSeq(s, 1, i - 1), SubSeq(s, i + 1, Len(s))>>

----------------------------------------------------------------------------
(* The token verifier, crypto.ValidateToken: a signed, unexpired token of   *)
(* this system decodes to its claims, anything else is an error.            *)

Roles == {"farmer", "buyer", "admin"}

IssuedTokens ==
    { [token |-> <<"t", "a">>, claims |-> [user_id |-> "u1", email |-> "a@x", role |-> "admin"]],
      [token |-> <<"t", "f">>, claims |-> [user_id |-> "u2", email |-> "f@x", role |-> "farmer"]],
      [token |-> <<"t", "b">>, claims |-> [user_id |-> "u3", email |-> "b@x", role |-> "buyer"]] }

NoClaims == [user_id |-> "", email |-> "", role |-> ""]

ValidateToken(tokenString) ==
    IF \E t \in IssuedTokens : t.token = tokenString
    THEN [claims |-> (CHOOSE t \in IssuedTokens : t.token = tokenString).claims, err |-> FALSE]
    ELSE [claims |-> NoClaims, err |-> TRUE]

----------------------------------------------------------------------------
(* The middlewares.  Each takes the request and yields what it did: the     *)
(* status it wrote (0 when it wrote none), whether it called next, and the  *)
(* request it handed to next.                                               *)

StatusUnauthorized == 401
StatusForbidden == 403

\* http.StatusText: the text of every status code net/http knows, "" for
\* any other code
StatusText(status) ==
    CASE status = 100 -> "Continue"
      [] status = 101 -> "Switching Protocols"
      [] status = 102 -> "Processing"
      [] status = 103 -> "Early Hints"
      [] status = 200 -> "OK"
      [] status = 201 -> "Created"
      [] status = 202 -> "Accepted"
      [] status = 203 -> "Non-Authoritative Information"
      [] status = 204 -> "No Content"
      [] status = 205 -> "Reset Content"
      [] status = 206 -> "Partial Content"
      [] status = 207 -> "Multi-Status"
      [] status = 208 -> "Already Reported"
      [] status = 226 -> "IM Used"
      [] status = 300 -> "Multiple Choices"
      [] status = 301 -> "Moved Permanently"
      [] status = 302 -> "Found"
      [] status = 303 -> "See Other"
      [] status = 304 -> "Not Modified"
      [] status = 305 -> "Use Proxy"
      [] status = 307 -> "Temporary Redirect"
      [] status = 308 -> "Permanent Redirect"
      [] status = 400 -> "Bad Request"
      [] status = 401 -> "Unauthorized"
      [] status = 402 -> "Payment Required"
      [] status = 403 -> "Forbidden"
      [] status = 404 -> "Not Found"
      [] status = 405 -> "Method Not Allowed"
      [] status = 406 -> "Not Acceptable"
      [] status = 407 -> "Proxy Authentication Required"
      [] status = 408 -> "Request Timeout"
      [] status = 409 -> "Conflict"
      [] status = 410 -> "Gone"
      [] status = 411 -> "Length Required"
      [] status = 412 -> "Precondition Failed"
      [] status = 413 -> "Request Entity Too Large"
      [] status = 414 -> "Request URI Too Long"
      [] status = 415 -> "Unsupported Media Type"
      [] status = 416 -> "Requested Range Not Satisfiable"
      [] status = 417 -> "Expectation Failed"
      [] status = 418 -> "I'm a teapot"
      [] status = 421 -> "Misdirected Request"
      [] status = 422 -> "Unprocessable Entity"
      [] status = 423 -> "Locked"
      [] status = 424 -> "Failed Dependency"
      [] status = 425 -> "Too Early"
      [] status = 426 -> "Upgrade Required"
      [] status = 428 -> "Precondition Required"
      [] status = 429 -> "Too Many Requests"
      [] status = 431 -> "Request Header Fields Too Large"
      [] status = 451 -> "Unavailable For Legal Reasons"
      [] status = 500 -> "Internal Server Error"
      [] status = 501 -> "Not Implemented"
      [] status = 502 -> "Bad Gateway"
      [] status = 503 -> "Service Unavailable"
      [] status = 504 -> "Gateway Timeout"
      [] status = 505 -> "HTTP Version Not Supported"
      [] status = 506 -> "Variant Also Negotiates"
      [] status = 507 -> "Insufficient Storage"
      [] status = 508 -> "Loop Detected"
      [] status = 510 -> "Not Extended"
      [] status = 511 -> "Network Authentication Required"
      [] OTHER -> ""

\* w.Header().Set("Content-Type", ...); w.WriteHeader(status): net/http
\* sends the header and the status line once.  On a writer whose status
\* line is out, both calls change nothing of what is sent.
WriteHeader(w, status) ==
    IF w.status = 0
    THEN [w EXCEPT !.status = status, !.contentType = "application/json"]
    ELSE w

\* respondJSON(w, status, data): the header and the status line, then
\* json.NewEncoder(w).Encode(data), which writes the body in either case
respondJSON(w, status, data) ==
    [WriteHeader(w, status) EXCEPT !.body = data]

\* respondError(w, status, message)
respondError(w, status, message) ==
    respondJSON(w, status, [error |-> StatusText(status), message |-> message, code |-> status])

\* respondError(w, status, message); return
Reject(r, status) == [next |-> FALSE, status |-> status, req |-> r]

\* next.ServeHTTP(w, r), after which the handler's locals end
CallNextWith(r) == [next |-> TRUE, status |-> 0, req |-> r]

\* an accessor that takes any string the context holds, the empty one too
ContextStringAllowEmpty(r, key) ==
    IF key \in DOMAIN r.ctx /\ r.ctx[key].isString
    THEN [v |-> r.ctx[key].v, err |-> FALSE]
    ELSE [v |-> "", err |-> TRUE]

\* r.Context().Value(key).(string), then the test `!ok || v == ""`
ContextString(r, key) ==
    IF key \in DOMAIN r.ctx /\ r.ctx[key].isString /\ r.ctx[key].v # ""
    THEN [v |-> r.ctx[key].v, err |-> FALSE]
    ELSE [v |-> "", err |-> TRUE]

GetUserIDFromContext(r) == ContextString(r, "user_id")
GetUserEmailFromContext(r) == ContextString(r, "email")
GetUserRoleFromContext(r) == ContextString(r, "role")

AuthMiddlewareNoVerify(r) ==
    LET parts == SplitN2(r.header)
    IN  IF r.header = << >> THEN Reject(r, StatusUnauthorized)
        ELSE IF Len(parts) # 2 THEN Reject(r, StatusUnauthorized)
        ELSE IF parts[1] # Bearer THEN Reject(r, StatusUnauthorized)
        ELSE IF parts[2] = << >> THEN Reject(r, StatusUnauthorized)
        ELSE CallNextWith(r)

AuthMiddleware(r) ==
    LET authHeader == r.header
        parts == SplitN2(authHeader)
    IN  IF authHeader = << >> THEN Reject(r, StatusUnauthorized)
        ELSE IF Len(parts) # 2 THEN Reject(r, StatusUnauthorized)
        ELSE IF parts[1] # Bearer THEN Reject(r, StatusUnauthorized)
        ELSE IF parts[2] = << >> THEN Reject(r, StatusUnauthorized)
        ELSE IF ValidateToken(parts[2]).err THEN Reject(r, StatusUnauthorized)
        \* the claims are dropped (`_, err :=`) and r goes on as it came
        ELSE CallNextWith(r)

RoleMiddleware(allowedRoles, r) ==
    LET role == GetUserRoleFromContext(r)
    IN  IF role.err THEN Reject(r, StatusUnauthorized)
        ELSE IF role.v \notin allowedRoles THEN Reject(r, StatusForbidden)
        ELSE CallNextWith(r)

\* CorsMiddleware: sets the headers, answers a preflight itself
CorsMiddleware(r) ==
    IF r.method = "OPTIONS" THEN Reject(r, StatusOK) ELSE CallNextWith(r)

\* LoggingMiddleware: times the request around next.ServeHTTP
LoggingMiddleware(r) == CallNextWith(r)

\* RecoveryMiddleware: installs the deferred recover, then next.ServeHTTP
RecoveryMiddleware(r) == CallNextWith(r)

\* the deferred function of RecoveryMiddleware after recover() caught a
\* panic: respondError(w, 500, ...) on the writer the handler left, which
\* holds the status line the handler wrote (wrote = 0 when it wrote none)
RecoverPanic(wrote) ==
    respondError([NoWire EXCEPT !.status = wrote], 500, "Internal server error").status

\* strings.Contains(s, sub), s cut into pieces of which sub may be one
Contains(s, sub) == \E i \in 1..Len(s) : s[i] = sub

\* ContentTypeMiddleware: POST, PUT and PATCH must carry a Content-Type
\* that contains application/json
ContentTypeMiddleware(r) ==
    IF r.method \in {"POST", "PUT", "PATCH"} /\ ~Contains(r.contentType, "application/json")
    THEN Reject(r, 415)
    ELSE CallNextWith(r)

\* chi's RequestID, RealIP, Logger, Recoverer and Timeout hand the request on
ChiMiddleware(r) == CallNextWith(r)

Mw(kind) == [kind |-> kind, roles |-> {}]
MwRole(allowed) == [kind |-> "Role", roles |-> allowed]

RunMiddleware(m, r) ==
    CASE m.kind = "Auth" -> AuthMiddleware(r)
      [] m.kind = "Role" -> RoleMiddleware(m.roles, r)
      [] m.kind = "Cors" -> CorsMiddleware(r)
      [] m.kind = "Logging" -> LoggingMiddleware(r)
      [] m.kind = "ContentType" -> ContentTypeMiddleware(r)
      [] m.kind = "Recovery" -> RecoveryMiddleware(r)
      [] OTHER -> ChiMiddleware(r)

----------------------------------------------------------------------------
(* The error envelope.  A failure is reported by its kind; the status that  *)
(* goes with a kind is the one passed to respondError where the kind arises.*)

\* the failures the middlewares report, with the status each call passes
MiddlewareFailures ==
    {[kind |-> "Unauthenticated", status |-> StatusUnauthorized],
     [kind |-> "Forbidden", status |-> StatusForbidden],
     [kind |-> "Internal", status |-> 500],
     [kind |-> "RateLimited", status |-> StatusTooManyRequests],
     [kind |-> "UnsupportedMediaType", status |-> 415]}

\* the failures of the OTP and delivery operations
OperationFailures ==
    {[kind |-> "InvalidRequest", status |-> 400],
     [kind |-> "NotFound", status |-> 404],
     [kind |-> "DeliveryFailed", status |-> 502]}

Failures == MiddlewareFailures \cup OperationFailures

ErrorKinds == {f.kind : f \in Failures}

Messages ==
    {"Authorization header is required",
     "Invalid authorization format. Use: Bearer <token>",
     "Invalid authorization type. Expected: Bearer",
     "Token is required",
     "Invalid or expired token",
     "Role not found in token",
     "Insufficient permissions for this action",
     "Internal server error",
     "Rate limit exceeded. Please try again later.",
     "Content-Type must be application/json",
     "Invalid request body",
     "No active code",
     "Delivery failed"}

RespondInit ==
    /\ errIn \in [kind : ErrorKinds, message : Messages]
    /\ wire = NoWire

\* The handler writes its status line, w.WriteHeader(200), and fails after
\* it.  Only the deferred call of RecoveryMiddleware runs after
\* next.ServeHTTP; every other respondError of the middlewares comes before
\* next is called, on a writer nothing was written to.
HandlerWroteFirst ==
    /\ wire = NoWire
    /\ errIn.kind = "Internal"
    /\ wire' = [NoWire EXCEPT !.status = StatusOK]
    /\ UNCHANGED <<clockVars, rateVars, raceVars, chainVars, otpVars, errIn,
                   deliveryVars, accessVars, serveVars>>

\* the failure is translated to its status and respondError is called on
\* the request's writer
Respond ==
    /\ wire.body = NoEnvelope
    /\ \E f \in Failures :
          /\ f.kind = errIn.kind
          /\ wire' = respondError(wire, f.status, errIn.message)
    /\ UNCHANGED <<clockVars, rateVars, raceVars, chainVars, otpVars, errIn,
                   deliveryVars, accessVars, serveVars>>

\* the next failure comes in, on the writer of its own request
NextFailure ==
    /\ wire.body # NoEnvelope
    /\ errIn' \in [kind : ErrorKinds, message : Messages]
    /\ wire' = NoWire
    /\ UNCHANGED <<clockVars, rateVars, raceVars, chainVars, otpVars,
                   deliveryVars, accessVars, serveVars>>

RespondNext ==
    \/ HandlerWroteFirst
    \/ Respond
    \/ NextFailure

InitRespond ==
    ClockIdle /\ RateInit /\ RaceIdle /\ ChainIdle /\ OtpInit
        /\ DeliveryIdle /\ AccessIdle /\ RespondInit /\ ServeIdle

SpecRespond == InitRespond /\ [][RespondNext]_vars

----------------------------------------------------------------------------
(* The identity accessors, called on a request whose context holds, per    *)
(* key, nothing, a string, or a value of another type (written as text).    *)

ContextKeys == {"user_id", "email", "role"}

ContextValues ==
    {[isString |-> TRUE, v |-> ""], [isString |-> TRUE, v |-> "u1"],
     [isString |-> TRUE, v |-> "admin"], [isString |-> FALSE, v |-> "42"]}

Contexts == UNION {[D -> ContextValues] : D \in SUBSET ContextKeys}

AccessInit ==
    /\ actx \in Contexts
    /\ ares = NoAccess

\* the accessor's two results, kept with the key it looked up
Access(key, out) ==
    /\ ares' = [key |-> key, v |-> out.v, err |-> out.err]
    /\ UNCHANGED <<clockVars, rateVars, raceVars, chainVars, otpVars, actx,
                   deliveryVars, respondVars, serveVars>>

CallGetUserID == Access("user_id", GetUserIDFromContext([NoReq EXCEPT !.ctx = actx]))
CallGetUserEmail == Access("email", GetUserEmailFromContext([NoReq EXCEPT !.ctx = actx]))
CallGetUserRole == Access("role", GetUserRoleFromContext([NoReq EXCEPT !.ctx = actx]))

AccessNext ==
    \/ CallGetUserID
    \/ CallGetUserEmail
    \/ CallGetUserRole

InitAccess ==
    ClockIdle /\ RateInit /\ RaceIdle /\ ChainIdle /\ OtpInit
        /\ DeliveryIdle /\ AccessInit /\ RespondIdle /\ ServeIdle

SpecAccess == InitAccess /\ [][AccessNext]_vars

----------------------------------------------------------------------------
(* A request travelling through a chain of middlewares to its handler *)

Tokens == {<<"t", "a">>, <<"t", "f">>, <<"t", "b">>, <<"x">>, <<"t", " ", "a">>}

Headers ==
    {<< >>, Bearer, Bearer \o Space, Space \o Bearer \o Space \o <<"t", "a">>,
     <<"b", "e", "a", "r", "e", "r", " ", "t", "a">>,
     <<"B", "a", "s", "i", "c", " ", "t", "a">>,
     Bearer \o <<"t", "a">>}
    \cup {Bearer \o Space \o t : t \in Tokens}
    \cup {Bearer \o Space \o Space \o t : t \in Tokens}

\* the routes of a guarded API: the guard alone, or the guard and a role check
GuardChains ==
    {<<Mw("Auth")>>}
    \cup {<<Mw("Auth"), MwRole(a)>> : a \in {{"admin"}, {"farmer", "buyer"}, Roles}}

HandlerOutcomes == {200, 500}

InFlight == pos >= 1 /\ pos <= Len(chain) + 1 /\ gresp = 0

Receive(r, c) ==
    /\ ~InFlight
    /\ req' = r
    /\ chain' = c
    /\ pos' = 1
    /\ trace' = << >>
    /\ gresp' = 0
    /\ handled' = FALSE
    /\ UNCHANGED <<clockVars, rateVars, raceVars, otpVars, auxVars>>

ReceiveGuarded(h, c) ==
    Receive([NoReq EXCEPT !.method = "GET", !.path = "/guarded", !.header = h], c)

\* the middleware at pos runs: it answers, or hands the request to the next
Enter(kind) ==
    /\ InFlight /\ pos <= Len(chain)
    /\ chain[pos].kind = kind
    /\ LET out == RunMiddleware(chain[pos], req)
       IN  /\ trace' = Append(trace, [kind |-> kind, next |-> out.next, status |-> out.status])
           /\ req' = out.req
           /\ gresp' = out.status
           /\ pos' = IF out.next THEN pos + 1 ELSE pos
    /\ UNCHANGED <<clockVars, rateVars, raceVars, otpVars, chain, handled, auxVars>>

EnterAuth == Enter("Auth")
EnterRole == Enter("Role")

\* the handler at the end of the chain
InvokeHandler(status) ==
    /\ InFlight /\ pos = Len(chain) + 1
    /\ handled' = TRUE
    /\ gresp' = status
    /\ UNCHANGED <<clockVars, rateVars, raceVars, otpVars, req, chain, pos, trace, auxVars>>

GuardNext ==
    \/ \E h \in Headers, c \in GuardChains : ReceiveGuarded(h, c)
    \/ EnterAuth
    \/ EnterRole
    \/ \E st \in HandlerOutcomes : InvokeHandler(st)

InitGuard == ClockIdle /\ RateInit /\ RaceIdle /\ ChainIdle /\ OtpInit /\ AuxIdle

SpecGuard == InitGuard /\ [][GuardNext]_vars

----------------------------------------------------------------------------
(* createServer: the router, its middleware stack and its routes *)

\* r.Use(...) on the root router, in order
RootStack ==
    <<Mw("RequestID"), Mw("RealIP"), Mw("Logger"), Mw("Recoverer"), Mw("Timeout"), Mw("Cors")>>

\* r.Route("/api/v1", ...): the group's own r.Use is commented out
ApiV1Stack == << >>

PublicRoutes ==
    {[method |-> "GET",  path |-> "/health"],
     [method |-> "POST", path |-> "/v1/profile/create"],
     [method |-> "POST", path |-> "/v1/profile/login"]}

ApiV1Routes ==
    {[method |-> "POST",   path |-> "/api/v1/mailer/send"],
     [method |-> "POST",   path |-> "/api/v1/whatsapp/send"],
     [method |-> "PUT",    path |-> "/api/v1/profile/{id}"],
     [method |-> "DELETE", path |-> "/api/v1/profile/{id}"],
     [method |-> "GET",    path |-> "/api/v1/profile/{id}"],
     [method |-> "GET",    path |-> "/api/v1/notification/preferences/{user_id}"],
     [method |-> "PUT",    path |-> "/api/v1/notification/preferences/{user_id}"],
     [method |-> "GET",    path |-> "/api/v1/courses"],
     [method |-> "GET",    path |-> "/api/v1/hubs/{user_id}"],
     [method |-> "GET",    path |-> "/api/v1/hubs"],
     [method |-> "GET",    path |-> "/api/v1/market_listings"],
     [method |-> "GET",    path |-> "/api/v1/market_listings/{id}"],
     [method |-> "POST",   path |-> "/api/v1/market_listings"],
     [method |-> "POST",   path |-> "/api/v1/sensors/insert"],
     [method |-> "GET",    path |-> "/api/v1/sensors/{hub_id}"],
     [method |-> "GET",    path |-> "/api/v1/alerts/unresolved/{hub_id}"]}

Routes == PublicRoutes \cup ApiV1Routes

ApiV1Paths == {rt.path : rt \in ApiV1Routes}

\* r.Get / r.Post in createServer: the handler behind a route
RouteHandler ==
    [rt \in {r \in ApiV1Routes : r.path \in
                {"/api/v1/hubs/{user_id}", "/api/v1/hubs", "/api/v1/market_listings",
                 "/api/v1/market_listings/{id}", "/api/v1/sensors/insert",
                 "/api/v1/sensors/{hub_id}", "/api/v1/alerts/unresolved/{hub_id}"}} |->
        CASE rt.path = "/api/v1/hubs/{user_id}" -> "GetUserHubs"
          [] rt.path = "/api/v1/hubs" -> "GetHubs"
          [] rt.path = "/api/v1/market_listings" /\ rt.method = "GET" -> "GetMarketListing"
          [] rt.path = "/api/v1/market_listings" /\ rt.method = "POST" -> "CreateMarketListing"
          [] rt.path = "/api/v1/market_listings/{id}" -> "GetMarketListingByID"
          [] rt.path = "/api/v1/sensors/insert" -> "InsertNewSensorReadings"
          [] rt.path = "/api/v1/sensors/{hub_id}" -> "GetSensorReadings"
          [] rt.path = "/api/v1/alerts/unresolved/{hub_id}" -> "GetUnresolvedAlerts"]

\* what a handler can meet: a body that does not decode, an empty hub_id,
\* a database call that fails, or none of these
CallOutcomes(name) ==
    {"ok", "dberr"}
        \cup (IF name \in {"CreateMarketListing", "InsertNewSensorReadings"}
              THEN {"badbody"} ELSE {})
        \cup (IF name \in {"GetSensorReadings", "GetUnresolvedAlerts"}
              THEN {"noparam"} ELSE {})

\* the status line and the Response a handler writes; a handler that calls
\* no WriteHeader answers 200, a field left out of Response{...} is false
\* or empty.  "err.Error()" stands for the text of the error returned
HandlerRespond(name, outcome) ==
    CASE outcome = "badbody" ->
            [status |-> 400, success |-> FALSE,
             message |-> IF name = "CreateMarketListing"
                         THEN "err.Error()" ELSE "invalid request body"]
      [] outcome = "noparam" ->
            [status |-> 400, success |-> FALSE, message |-> "hub_id is required"]
      [] outcome = "dberr" ->
            [status |-> 500, success |-> FALSE,
             message |-> CASE name = "InsertNewSensorReadings" -> "failed to insert readings"
                           [] name = "GetSensorReadings" -> "failed to get readings"
                           [] name = "GetUnresolvedAlerts" -> "failed to get alerts"
                           [] OTHER -> "err.Error()"]
      [] outcome = "ok" /\ name \in {"GetUserHubs", "GetHubs"} ->
            [status |-> StatusOK, success |-> FALSE, message |-> "Hubs retrieved successfully"]
      [] OTHER ->
            [status |-> StatusOK, success |-> TRUE,
             message |-> CASE name = "InsertNewSensorReadings" -> "readings inserted successfully"
                           [] name = "GetSensorReadings" -> "readings retrieved successfully"
                           [] name = "GetUnresolvedAlerts" -> "alerts retrieved successfully"
                           [] OTHER -> ""]

\* the statuses the handler behind a route can write.  HealthHandler reads
\* r.Response, nil in a server, before it writes: it panics and chi's
\* Recoverer answers 500.  The other handlers are not in this package
RouteStatuses(rt) ==
    IF rt \in DOMAIN RouteHandler
    THEN {HandlerRespond(RouteHandler[rt], o).status : o \in CallOutcomes(RouteHandler[rt])}
    ELSE IF rt.path = "/health" THEN {500}
    ELSE HandlerOutcomes

\* the stack a request to path runs through before its route's handler
createServer(path) == RootStack \o (IF path \in ApiV1Paths THEN ApiV1Stack ELSE << >>)

Methods == {"GET", "POST", "PUT", "DELETE", "OPTIONS"}
Paths == {rt.path : rt \in Routes} \cup {"/nowhere"}
ServerHeaders == {<< >>, Bearer \o Space \o <<"t", "a">>, Bearer \o Space \o <<"x">>}

ReceiveServer(m, path, h) ==
    Receive([NoReq EXCEPT !.method = m, !.path = path, !.header = h], createServer(path))

ChiKinds == {"RequestID", "RealIP", "Logger", "Recoverer", "Timeout"}

EnterChi(kind) == Enter(kind)
EnterCors == Enter("Cors")

\* the router found the route: its handler runs
ServeRoute(status) ==
    /\ [method |-> req.method, path |-> req.path] \in Routes
    /\ status \in RouteStatuses([method |-> req.method, path |-> req.path])
    /\ InvokeHandler(status)

\* the router found no route for the path, or none for the method
RouteMiss ==
    /\ InFlight /\ pos = Len(chain) + 1
    /\ [method |-> req.method, path |-> req.path] \notin Routes
    \* chi answers 405 when the path has routes for other methods, else 404
    /\ gresp' = IF \E rt \in Routes : rt.path = req.path THEN 405 ELSE 404
    /\ UNCHANGED <<clockVars, rateVars, raceVars, otpVars, req, chain, pos, trace, handled, auxVars>>

ServerNext ==
    \/ \E m \in Methods, path \in Paths, h \in ServerHeaders : ReceiveServer(m, path, h)
    \/ \E kind \in ChiKinds : EnterChi(kind)
    \/ EnterCors
    \/ \E st \in UNION {RouteStatuses(rt) : rt \in Routes} : ServeRoute(st)
    \/ RouteMiss

InitServer == ClockIdle /\ RateInit /\ RaceIdle /\ ChainIdle /\ OtpInit /\ AuxIdle

SpecServer == InitServer /\ [][ServerNext]_vars

----------------------------------------------------------------------------
(* The route handlers of package v1 that answer with the Response envelope *)

ReceiveApi(m, path, h) ==
    /\ path \in {rt.path : rt \in DOMAIN RouteHandler}
    /\ ReceiveServer(m, path, h)

\* the router found the route: its handler runs and writes its envelope
ServeHandler(outcome) ==
    /\ InFlight /\ pos = Len(chain) + 1
    /\ LET rt == [method |-> req.method, path |-> req.path]
       IN  /\ rt \in DOMAIN RouteHandler
           /\ outcome \in CallOutcomes(RouteHandler[rt])
           /\ LET out == HandlerRespond(RouteHandler[rt], outcome)
              IN  /\ gresp' = out.status
                  /\ hbody' = [success |-> out.success, message |-> out.message]
    /\ handled' = TRUE
    /\ UNCHANGED <<clockVars, rateVars, raceVars, otpVars, req, chain, pos, trace,
                   deliveryVars, accessVars, respondVars, listed, panicState>>

ApiNext ==
    \/ \E m \in Methods, path \in Paths, h \in ServerHeaders : ReceiveApi(m, path, h)
    \/ \E kind \in ChiKinds : EnterChi(kind)
    \/ EnterCors
    \/ \E outcome \in {"ok", "dberr", "badbody", "noparam"} : ServeHandler(outcome)
    \/ RouteMiss

InitApi == ClockIdle /\ RateInit /\ RaceIdle /\ ChainIdle /\ OtpInit /\ AuxIdle

SpecApi == InitApi /\ [][ApiNext]_vars

----------------------------------------------------------------------------
(* ChainMiddleware: a handler built from a list of middlewares, and the    *)
(* requests it serves.  A handler is written as the middlewares around it, *)
(* outermost first; the final handler alone is the empty sequence.         *)

\* middleware(final): the handler that runs the middleware, then final
Wrap(m, final) == <<m>> \o final

\* a loop that wraps from the first middleware to the last
RECURSIVE WrapUp(_, _, _)
WrapUp(middlewares, i, final) ==
    IF i > Len(middlewares) THEN final
    ELSE WrapUp(middlewares, i + 1, Wrap(middlewares[i], final))

ChainMiddlewareAscending(middlewares) == WrapUp(middlewares, 1, << >>)

\* for i := len(middlewares) - 1; i >= 0; i-- { final = middlewares[i](final) }
RECURSIVE WrapDown(_, _, _)
WrapDown(middlewares, i, final) ==
    IF i < 1 THEN final
    ELSE WrapDown(middlewares, i - 1, Wrap(middlewares[i], final))

ChainMiddleware(middlewares) == WrapDown(middlewares, Len(middlewares), << >>)

ChainableMiddlewares ==
    {Mw("Logging"), Mw("Recovery"), Mw("Cors"), Mw("ContentType"), Mw("Auth"),
     MwRole({"admin"})}

\* the argument lists of ChainMiddleware: no middleware twice
MiddlewareLists ==
    {ms \in UNION {[1..n -> ChainableMiddlewares] : n \in 0..MaxChain} :
        \A i, j \in DOMAIN ms : i # j => ms[i] # ms[j]}

ChainHeaders == {<< >>, Bearer \o Space \o <<"t", "a">>, Bearer \o Space \o <<"x">>}

\* the Content-Type header, cut into pieces: none, JSON with a charset, text
ContentTypes == {<< >>, <<"application/json", "; charset=utf-8">>, <<"text/plain">>}

\* reads and preflights without a body, posts with each Content-Type
ChainRequests ==
    {[NoReq EXCEPT !.method = m, !.path = "/chained", !.header = h] :
        m \in {"GET", "OPTIONS"}, h \in ChainHeaders}
    \cup {[NoReq EXCEPT !.method = "POST", !.path = "/chained", !.header = h,
                        !.contentType = ct] : h \in ChainHeaders, ct \in ContentTypes}

\* a request arrives at ChainMiddleware(ms...)(final), the one before it
\* answered
ReceiveChained(r, ms) ==
    /\ ChainIdle
    /\ req' = r
    /\ listed' = ms
    /\ chain' = ChainMiddleware(ms)
    /\ pos' = 1
    /\ trace' = << >>
    /\ gresp' = 0
    /\ handled' = FALSE
    /\ panicState' = "none"
    /\ UNCHANGED <<clockVars, rateVars, raceVars, otpVars,
                   deliveryVars, accessVars, respondVars, hbody>>

EnterLogging == Enter("Logging")
EnterRecovery == Enter("Recovery")
EnterContentType == Enter("ContentType")

\* what the handler had written when it panicked: nothing, or a status line
PanicPoints == {0, StatusOK}

\* the final handler panics.  The panic unwinds to the deferred function of
\* the nearest RecoveryMiddleware around it; with none around it, it leaves
\* the chain (net/http then drops the connection and serves on)
HandlerPanics(wrote) ==
    /\ InFlight /\ pos = Len(chain) + 1
    /\ handled' = TRUE
    /\ pos' = 0
    /\ IF \E i \in 1..Len(chain) : chain[i].kind = "Recovery"
       THEN /\ panicState' = "recovered"
            /\ gresp' = RecoverPanic(wrote)
       ELSE /\ panicState' = "escaped"
            /\ gresp' = wrote
    /\ UNCHANGED <<clockVars, rateVars, raceVars, otpVars, req, chain, trace,
                   deliveryVars, accessVars, respondVars, listed, hbody>>

\* the request is over (answered, or its connection dropped after a panic
\* that nothing recovered): the server waits for the next one
Served ==
    /\ req # NoReq /\ ~InFlight
    /\ req' = NoReq
    /\ chain' = << >>
    /\ pos' = 0
    /\ trace' = << >>
    /\ gresp' = 0
    /\ handled' = FALSE
    /\ listed' = << >>
    /\ panicState' = "none"
    /\ UNCHANGED <<clockVars, rateVars, raceVars, otpVars,
                   deliveryVars, accessVars, respondVars, hbody>>

ChainNext ==
    \/ \E r \in ChainRequests, ms \in MiddlewareLists : ReceiveChained(r, ms)
    \/ EnterLogging
    \/ EnterContentType
    \/ EnterRecovery
    \/ EnterCors
    \/ EnterAuth
    \/ EnterRole
    \/ \E st \in HandlerOutcomes : InvokeHandler(st)
    \/ \E wrote \in PanicPoints : HandlerPanics(wrote)
    \/ Served

InitChain == ClockIdle /\ RateInit /\ RaceIdle /\ ChainIdle /\ OtpInit /\ AuxIdle

SpecChain == InitChain /\ [][ChainNext]_vars

----------------------------------------------------------------------------
(* The OTP credential issuer: Issue and Verify over the record store *)

Purposes == {"login", "password_reset", "verification", "registration"}
Emails == {"a@b.com"}
Codes == {"482913", "105577"}

\* GetOTPExpirationDuration, in seconds
GetOTPExpirationDuration(purpose) ==
    CASE purpose = "login" -> 300
      [] purpose = "password_reset" -> 600
      [] purpose = "verification" -> 900
      [] purpose = "registration" -> 900

\* CreateOTPData(code, purpose), for email, as the id-th record
CreateOTPData(email, purpose, code, t, id) ==
    [email |-> email, purpose |-> purpose, code |-> code,
     expiresAt |-> t + GetOTPExpirationDuration(purpose), id |-> id]

\* otp.IsOTPExpired()
IsOTPExpiredReversed(rec, t) == t < rec.expiresAt
IsOTPExpired(rec, t) == t > rec.expiresAt

RecordsOf(store, email, purpose) ==
    {rec \in store : rec.email = email /\ rec.purpose = purpose}

\* Issue(email, purpose): the record of the pair is overwritten
IssueKeepOld(store, email, purpose, code, t, id) ==
    store \cup {CreateOTPData(email, purpose, code, t, id)}
Issue(store, email, purpose, code, t, id) ==
    (store \ RecordsOf(store, email, purpose))
        \cup {CreateOTPData(email, purpose, code, t, id)}

\* Verify(email, purpose, presentedCode): the result, the record accepted
\* (id 0 when none) and the store it leaves
VerifyNoConsume(store, email, purpose, code, t) ==
    LET recs == RecordsOf(store, email, purpose)
    IN  IF recs = {} THEN [result |-> "NotFound", id |-> 0, store |-> store]
        ELSE LET rec == CHOOSE x \in recs : TRUE
             IN  IF IsOTPExpired(rec, t)
                 THEN [result |-> "Expired", id |-> 0, store |-> store]
                 ELSE IF rec.code # code
                 THEN [result |-> "Invalid", id |-> 0, store |-> store]
                 ELSE [result |-> "Valid", id |-> rec.id, store |-> store]
Verify(store, email, purpose, code, t) ==
    LET recs == RecordsOf(store, email, purpose)
    IN  IF recs = {} THEN [result |-> "NotFound", id |-> 0, store |-> store]
        ELSE LET rec == CHOOSE x \in recs : TRUE
             IN  IF IsOTPExpired(rec, t)
                 THEN [result |-> "Expired", id |-> 0, store |-> store]
                 ELSE IF rec.code # code
                 THEN [result |-> "Invalid", id |-> 0, store |-> store]
                 ELSE [result |-> "Valid", id |-> rec.id, store |-> store \ recs]

OtpTickSteps == {300, 301}

OtpTick(d) ==
    /\ now + d <= MaxOtpTime
    /\ now' = now + d
    /\ UNCHANGED <<requestsPerMinute, rateVars, raceVars, chainVars, otpVars, auxVars>>

\* the codes issued for the pair so far: that of its record, and those of
\* the records superseded
IssuedCodes(email, purpose) ==
    {rec.code : rec \in RecordsOf(otpStore \cup retired, email, purpose)}

\* Issue generates a new code: one that was not issued for the pair before
IssueOtp(email, purpose, code) ==
    /\ nissue < MaxIssues
    /\ code \notin IssuedCodes(email, purpose)
    /\ nissue' = nissue + 1
    /\ otpStore' = Issue(otpStore, email, purpose, code, now, nissue + 1)
    /\ retired' = retired \cup RecordsOf(otpStore, email, purpose)
    /\ lastIssued' = [k \in DOMAIN lastIssued \cup {<<email, purpose>>} |->
                        IF k = <<email, purpose>>
                        THEN [code |-> code, id |-> nissue + 1] ELSE lastIssued[k]]
    /\ UNCHANGED <<clockVars, rateVars, raceVars, chainVars, nverify, vres, accepted, auxVars>>

VerifyOtp(email, purpose, code) ==
    /\ nverify < MaxVerifies
    /\ nverify' = nverify + 1
    /\ LET out == Verify(otpStore, email, purpose, code, now)
       IN  /\ otpStore' = out.store
           /\ vres' = [email |-> email, purpose |-> purpose, code |-> code,
                       result |-> out.result, id |-> out.id, issues |-> nissue]
           /\ accepted' = IF out.result = "Valid"
                          THEN [accepted EXCEPT ![out.id] = @ + 1] ELSE accepted
    /\ UNCHANGED <<clockVars, rateVars, raceVars, chainVars, nissue, lastIssued, retired, auxVars>>

OtpNext ==
    \/ \E d \in OtpTickSteps : OtpTick(d)
    \/ \E e \in Emails, p \in Purposes, c \in Codes : IssueOtp(e, p, c)
    \/ \E e \in Emails, p \in Purposes, c \in Codes : VerifyOtp(e, p, c)

InitOtp == ClockIdle /\ RateInit /\ RaceIdle /\ ChainIdle /\ OtpInit /\ AuxIdle

SpecOtp == InitOtp /\ [][OtpNext]_vars

----------------------------------------------------------------------------
(* Issuance with delivery.  The delivery collaborator's answer is an input: *)
(* delivered or not.                                                        *)

\* an issuance that takes the record back when the delivery fails
SendOTPRollback(store, email, purpose, otp, t, id, delivered) ==
    IF purpose \notin Purposes
    THEN [outcome |-> "InvalidRequest", stored |-> FALSE, store |-> store]
    ELSE IF delivered
    THEN [outcome |-> "Issued", stored |-> TRUE,
          store |-> Issue(store, email, purpose, otp, t, id)]
    ELSE [outcome |-> "DeliveryFailed", stored |-> FALSE, store |-> store]

\* SendOTP: Issue, then hand the code to the delivery collaborator.  An
\* unknown purpose fails the issuance as a whole; a failed delivery leaves
\* the record stored and is reported as DeliveryFailed
SendOTP(store, email, purpose, otp, t, id, delivered) ==
    IF purpose \notin Purposes
    THEN [outcome |-> "InvalidRequest", stored |-> FALSE, store |-> store]
    ELSE [outcome |-> IF delivered THEN "Issued" ELSE "DeliveryFailed",
          stored  |-> TRUE,
          store   |-> Issue(store, email, purpose, otp, t, id)]

\* SendOTPWithExistingCode (Resend): delivers the code of the active record
\* again; NoActiveRecord when the pair has no record or another code
SendOTPWithExistingCode(store, email, purpose, otp, delivered) ==
    IF \A rec \in RecordsOf(store, email, purpose) : rec.code # otp
    THEN "NoActiveRecord"
    ELSE IF delivered THEN "Resent" ELSE "DeliveryFailed"

DeliveryPurposes == {"login", "newsletter"}

SendOtp(email, purpose, code, delivered) ==
    /\ nissue < MaxIssues
    /\ LET out == SendOTP(otpStore, email, purpose, code, now, nissue + 1, delivered)
           n == IF out.stored THEN nissue + 1 ELSE nissue
       IN  /\ otpStore' = out.store
           /\ nissue' = n
           /\ sendRes' = [op |-> "send", outcome |-> out.outcome, email |-> email,
                          purpose |-> purpose, code |-> code,
                          id |-> IF out.stored THEN n ELSE 0, at |-> now, issues |-> n]
           /\ retired' = IF out.stored
                         THEN retired \cup RecordsOf(otpStore, email, purpose) ELSE retired
           /\ lastIssued' = IF out.stored
                            THEN [k \in DOMAIN lastIssued \cup {<<email, purpose>>} |->
                                    IF k = <<email, purpose>>
                                    THEN [code |-> code, id |-> n] ELSE lastIssued[k]]
                            ELSE lastIssued
    /\ UNCHANGED <<clockVars, rateVars, raceVars, chainVars, nverify, vres, accepted,
                   accessVars, respondVars, serveVars>>

ResendOtp(email, purpose, code, delivered) ==
    /\ sendRes' = [op |-> "resend",
                   outcome |-> SendOTPWithExistingCode(otpStore, email, purpose, code, delivered),
                   email |-> email, purpose |-> purpose, code |-> code,
                   id |-> 0, at |-> now, issues |-> nissue]
    /\ UNCHANGED <<clockVars, rateVars, raceVars, chainVars, otpVars,
                   accessVars, respondVars, serveVars>>

DeliveryNext ==
    \/ \E e \in Emails, p \in DeliveryPurposes, c \in Codes, ok \in BOOLEAN :
          SendOtp(e, p, c, ok)
    \/ \E e \in Emails, p \in DeliveryPurposes, c \in Codes, ok \in BOOLEAN :
          ResendOtp(e, p, c, ok)
    \/ \E e \in Emails, p \in DeliveryPurposes, c \in Codes : VerifyOtp(e, p, c)
    \/ \E d \in OtpTickSteps : OtpTick(d)

InitDelivery == ClockIdle /\ RateInit /\ RaceIdle /\ ChainIdle /\ OtpInit /\ AuxIdle

SpecDelivery == InitDelivery /\ [][DeliveryNext]_vars

----------------------------------------------------------------------------
\* C1: for one client key served sequentially, within one window (no reset
\* in between) the first `limit` requests are handed to the next handler and
\* every further request of that window is answered 429 without next running.
C1_FirstLimitAdmittedRestRejected ==
    /\ \A k \in DOMAIN clients :
          passed[k] = Min(served[k], IF requestsPerMinute < 0 THEN 0 ELSE requestsPerMinute)
    /\ resp.status # 0 =>
          /\ resp.next <=> served[resp.ip] <= requestsPerMinute
          /\ ~resp.next <=> resp.status = StatusTooManyRequests

C1_Witness ==
    /\ requestsPerMinute >= 2
    /\ resp.status = StatusTooManyRequests
    /\ ~resp.next
    /\ served[resp.ip] > requestsPerMinute
    /\ passed[resp.ip] = requestsPerMinute

\* C3, as stated: a request of an existing client that arrives more than one
\* minute after the window start resets the bucket (count restarts at this
\* request, window start becomes now) and is admitted, also when the client
\* had been rejected before; a request at exactly one minute or earlier
\* leaves the window start alone and only adds itself to the count when
\* admitted.
C3_ResetAdmitsAgain ==
    [][\A k \in DOMAIN clients :
          (nreq' = nreq + 1 /\ resp'.ip = k) =>
             IF now - clients[k].lastReset > Minute
             THEN /\ clients'[k] = [requests |-> 1, lastReset |-> now]
                  /\ resp'.next /\ resp'.status = StatusOK
                  /\ served'[k] = 1 /\ passed'[k] = 1
             ELSE /\ clients'[k].lastReset = clients[k].lastReset
                  /\ clients'[k].requests =
                        clients[k].requests + (IF resp'.next THEN 1 ELSE 0)
                  /\ resp'.wasLimited => ~resp'.next]_vars

\* C3, amended: a request of an existing client that arrives more than one
\* minute after the window start resets the bucket, count to zero and window
\* start to now, and is then admitted (count 1) exactly when the limit is at
\* least 1: with a limit of zero or less it is rejected, the bucket reset
\* all the same.  A request at exactly one minute or earlier leaves the
\* window start alone and only adds itself to the count when admitted.
C3_ResetOnlyAfterMinute ==
    [][\A k \in DOMAIN clients :
          (nreq' = nreq + 1 /\ resp'.ip = k) =>
             IF now - clients[k].lastReset > Minute
             THEN LET admit == requestsPerMinute >= 1
                  IN  /\ clients'[k] = [requests |-> IF admit THEN 1 ELSE 0,
                                        lastReset |-> now]
                      /\ resp'.next <=> admit
                      /\ resp'.status = IF admit THEN StatusOK ELSE StatusTooManyRequests
                      /\ served'[k] = 1
                      /\ passed'[k] = IF admit THEN 1 ELSE 0
             ELSE /\ clients'[k].lastReset = clients[k].lastReset
                  /\ clients'[k].requests =
                        clients[k].requests + (IF resp'.next THEN 1 ELSE 0)
                  /\ resp'.wasLimited => ~resp'.next]_vars

C3_Witness ==
    /\ resp.wasLimited
    /\ resp.next
    /\ clients[resp.ip] = [requests |-> 1, lastReset |-> now]
    /\ now > Minute

\* C2: under any interleaving of concurrent requests of one client key, at
\* most `limit` requests are admitted in one window: no update of the
\* counter and no insertion into the map is lost.
C2_AtMostLimitPerWindow ==
    \A a \in admits :
       Cardinality({b \in admits : b.ip = a.ip /\ b.window = a.window})
          <= requestsPerMinute

\* the claims of the token a well-formed Authorization header carries
HeaderToken(h) == SubSeq(h, Len(Bearer) + 2, Len(h))
CarriesIssuedToken(h) == \E t \in IssuedTokens : h = Bearer \o Space \o t.token
HeaderClaims(h) == (CHOOSE t \in IssuedTokens : t.token = HeaderToken(h)).claims

\* C4: a request with a valid token whose role is not among the allowed
\* roles of a route guarded by AuthMiddleware and RoleMiddleware is answered
\* 403, not 401, and its handler is not invoked.
C4_WrongRoleForbidden ==
    (/\ Len(chain) = 2 /\ chain[1].kind = "Auth" /\ chain[2].kind = "Role"
     /\ CarriesIssuedToken(req.header)
     /\ HeaderClaims(req.header).role \notin chain[2].roles
     /\ gresp # 0)
    => (gresp = StatusForbidden /\ ~handled)

\* C5: when the handler runs behind AuthMiddleware, the request it is given
\* carries the verified token's subject id, email and role, so the three
\* accessors succeed with those values.
C5_HandlerSeesIdentity ==
    (handled /\ Len(chain) >= 1 /\ chain[1].kind = "Auth") =>
        /\ GetUserIDFromContext(req) = [v |-> HeaderClaims(req.header).user_id, err |-> FALSE]
        /\ GetUserEmailFromContext(req) = [v |-> HeaderClaims(req.header).email, err |-> FALSE]
        /\ GetUserRoleFromContext(req) = [v |-> HeaderClaims(req.header).role, err |-> FALSE]

\* C6: AuthMiddleware calls next exactly when the Authorization header is
\* "Bearer " followed by a non-empty token that verifies; in every other case
\* it answers 401 and nothing behind it runs.
C6_AuthRejectsAllButVerifiedBearer ==
    \A i \in 1..Len(trace) :
       trace[i].kind = "Auth" =>
          /\ trace[i].next <=> CarriesIssuedToken(req.header)
          /\ ~trace[i].next =>
                /\ trace[i].status = StatusUnauthorized
                /\ gresp = StatusUnauthorized
                /\ Len(trace) = i /\ ~handled

C6_Witness ==
    /\ Len(trace) = 1 /\ trace[1].kind = "Auth"
    /\ ~trace[1].next /\ gresp = StatusUnauthorized
    /\ Len(req.header) > Len(Bearer) + 1
    /\ SubSeq(req.header, 1, Len(Bearer) + 1) = Bearer \o Space

\* C7: the handler of a route under /api/v1 runs only after the request has
\* passed the rate limiter and then the token verifier.
C7_ProtectedBehindGuard ==
    (handled /\ req.path \in ApiV1Paths) =>
        \E i, j \in 1..Len(trace) :
            /\ i < j
            /\ trace[i].kind = "RateLimit" /\ trace[i].next
            /\ trace[j].kind = "Auth" /\ trace[j].next

\* C8: Verify with the code of the pair's record, not later than expiresAt,
\* yields Valid and removes the record, and the same Verify repeated yields
\* NotFound; no record is reported Valid twice.
C8_ValidOnceThenNotFound ==
    [][nverify' = nverify + 1 =>
          LET recs == RecordsOf(otpStore, vres'.email, vres'.purpose)
          IN  /\ (\E rec \in recs : rec.code = vres'.code /\ now <= rec.expiresAt)
                    => /\ vres'.result = "Valid"
                       /\ RecordsOf(otpStore', vres'.email, vres'.purpose) = {}
              /\ (vres.result = "Valid" /\ vres.issues = nissue
                    /\ vres'.email = vres.email /\ vres'.purpose = vres.purpose)
                    => vres'.result = "NotFound"
              /\ \A i \in 1..MaxIssues : accepted'[i] <= 1]_vars

C8_Witness ==
    /\ vres.result = "NotFound" /\ vres.issues = nissue
    /\ <<vres.email, vres.purpose>> \in DOMAIN lastIssued
    /\ lastIssued[<<vres.email, vres.purpose>>].code = vres.code
    /\ accepted[lastIssued[<<vres.email, vres.purpose>>].id] = 1

AtMostOneRecordPerPair ==
    \A r1, r2 \in otpStore :
       (r1.email = r2.email /\ r1.purpose = r2.purpose) => r1 = r2

\* C9: once a pair was issued a second code, Verify never reports the first
\* code Valid (it reports Invalid or NotFound while the first record's own
\* expiry window lasts), the superseded record is gone from the store and is
\* never the record accepted, and the pair has at most one record.
C9_FirstCodeNeverValid ==
    /\ AtMostOneRecordPerPair
    /\ \A old \in retired : old \notin otpStore /\ accepted[old.id] = 0
    /\ \A old \in retired :
          (/\ vres.issues = nissue
           /\ old.email = vres.email /\ old.purpose = vres.purpose
           /\ old.code = vres.code)
             => /\ vres.result # "Valid"
                /\ now <= old.expiresAt => vres.result \in {"Invalid", "NotFound"}

C9_Witness ==
    /\ vres.result = "Invalid" /\ vres.issues = nissue
    /\ \E old \in retired : /\ old.email = vres.email /\ old.purpose = vres.purpose
                            /\ old.code = vres.code /\ now <= old.expiresAt

\* C10: Verify with the code of the pair's record after expiresAt yields
\* Expired, neither Valid nor Invalid; Valid is reported only up to expiresAt.
C10_ExpiredMatchIsExpired ==
    [][nverify' = nverify + 1 =>
          \A rec \in RecordsOf(otpStore, vres'.email, vres'.purpose) :
             /\ (rec.code = vres'.code /\ now > rec.expiresAt)
                    => vres'.result = "Expired"
             /\ vres'.result = "Valid" => now <= rec.expiresAt]_vars

C10_Witness ==
    /\ vres.result = "Expired" /\ vres.issues = nissue
    /\ \E rec \in otpStore : /\ rec.email = vres.email /\ rec.purpose = vres.purpose
                             /\ rec.code = vres.code /\ now > rec.expiresAt

(* C17, as stated: with requests handled one at a time, the requests of one
   client handed to next within any interval no longer than one window
   (60 s) are at most 2 * limit, and the count stored in every bucket stays
   within 0 .. limit.  recent[k] holds the admissions of the 60 s that end
   now, and every such interval ends at the time of some admission. *)
C17_AtMostTwiceLimit ==
    \A k \in DOMAIN clients :
        /\ Len(recent[k]) <= 2 * requestsPerMinute
        /\ \A i \in 1..Len(recent[k]) : now - recent[k][i] <= Minute
        /\ clients[k].requests >= 0
        /\ clients[k].requests <= requestsPerMinute

(* C17, amended: the same with max(limit, 0) in the place of limit: a
   negative limit admits nothing and its buckets hold the count 0. *)
C17_AtMostTwiceLimitPerMinute ==
    LET limit == IF requestsPerMinute < 0 THEN 0 ELSE requestsPerMinute
    IN  \A k \in DOMAIN clients :
            /\ Len(recent[k]) <= 2 * limit
            /\ \A i \in 1..Len(recent[k]) : now - recent[k][i] <= Minute
            /\ clients[k].requests >= 0
            /\ clients[k].requests <= limit

\* an interval shorter than a minute that overlaps two windows and holds
\* more admissions than the limit
C17_Witness ==
    \E k \in ClientKeys :
        /\ requestsPerMinute = 2
        /\ Len(recent[k]) > requestsPerMinute
        /\ clients[k].requests = requestsPerMinute
        /\ recent[k][1] < clients[k].lastReset

(* C18: a request that the rate limiter rejects inside the current window
   of its client (the bucket exists and no more than a minute has passed
   since its window start) leaves the bucket, count and window start, as it
   was; with a limit of at least 1 every rejection is of this kind. *)
C18_RejectionLeavesBucket ==
    [][\A ip \in ClientKeys :
          (nreq' = nreq + 1 /\ resp'.ip = ip /\ resp'.status = StatusTooManyRequests)
              => LET inWindow == /\ ip \in DOMAIN clients
                                 /\ now - clients[ip].lastReset <= Minute
                 IN  /\ inWindow => clients'[ip] = clients[ip]
                     /\ requestsPerMinute >= 1 => inWindow]_vars

\* a client rejected twice in a window that started earlier, then admitted
\* again by the first request after the window
C18_Witness ==
    \E ip \in ClientKeys :
        /\ requestsPerMinute >= 1
        /\ resp.ip = ip
        /\ resp.status = StatusTooManyRequests
        /\ served[ip] - passed[ip] >= 2
        /\ clients[ip].lastReset < now
        /\ clients[ip].requests = requestsPerMinute

(* C19: a request changes no bucket but its own client's, a request is
   rejected only on the count of its own client's bucket (0 for a bucket it
   creates or resets), and no step removes a bucket. *)
C19_BucketsIsolated ==
    [][/\ DOMAIN clients \subseteq DOMAIN clients'
       /\ \A ip \in ClientKeys :
             (nreq' = nreq + 1 /\ resp'.ip = ip)
                 => /\ \A k \in DOMAIN clients \ {ip} : clients'[k] = clients[k]
                    /\ DOMAIN clients' = DOMAIN clients \cup {ip}
                    /\ resp'.status = StatusTooManyRequests
                          => (IF ip \in DOMAIN clients
                                    /\ now - clients[ip].lastReset <= Minute
                              THEN clients[ip].requests ELSE 0) >= requestsPerMinute]_vars

\* client A has used up its limit and was rejected; B's first request, in
\* the same second, is admitted
C19_Witness ==
    /\ "A" \in DOMAIN clients
    /\ clients["A"].requests = requestsPerMinute
    /\ served["A"] > passed["A"]
    /\ resp.ip = "B"
    /\ resp.status = StatusOK
    /\ clients["B"] = [requests |-> 1, lastReset |-> now]
    /\ clients["A"].lastReset = now

(* C12: an identity accessor returns an error, and no value, whenever the
   context holds nothing, a value that is not a string, or the empty string
   under its key; it returns the stored string, and no error, exactly when
   a non-empty string is stored. *)
C12_AccessorFailsExplicitly ==
    ares.key # "" =>
        LET k == ares.key
            missing == k \notin DOMAIN actx
            nonString == ~missing /\ ~actx[k].isString
            empty == ~missing /\ actx[k].isString /\ actx[k].v = ""
        IN  /\ ares.err <=> (missing \/ nonString \/ empty)
            /\ ares.err => ares.v = ""
            /\ ~ares.err => (ares.v = actx[k].v /\ ares.v # "")

\* the role accessor on a context holding the empty string as role, next to
\* a user id that is not a string
C12_Witness ==
    /\ ares.key = "role"
    /\ ares.err
    /\ "role" \in DOMAIN actx /\ actx["role"] = [isString |-> TRUE, v |-> ""]
    /\ "user_id" \in DOMAIN actx /\ ~actx["user_id"].isString

(* C13 as stated: every failure kind of the taxonomy has exactly one status (429, 401,
   403, 400, 404, 502, 500), and the envelope respondError writes carries
   the status written in its code field and that status's text in its error
   field. *)
C13_OneStatusPerKindInEnvelope ==
    LET taxonomy == [RateLimited |-> 429, Unauthenticated |-> 401, Forbidden |-> 403,
                     InvalidRequest |-> 400, NotFound |-> 404, DeliveryFailed |-> 502,
                     Internal |-> 500]
    IN  /\ \A k \in DOMAIN taxonomy :
              {f.status : f \in {g \in Failures : g.kind = k}} = {taxonomy[k]}
        /\ wire.body # NoEnvelope =>
              /\ wire.body.code = wire.status
              /\ wire.body.error = StatusText(wire.status)
              /\ wire.body.error # ""
              /\ wire.body.message = errIn.message
              /\ errIn.kind \in DOMAIN taxonomy => wire.status = taxonomy[errIn.kind]

(* C14: a panic of a handler wrapped in RecoveryMiddleware is recovered and
   answered with status 500; it does not leave the chain, and the server is
   ready for the next request. *)
C14_PanicBecomes500 ==
    (panicState # "none" /\ \E i \in 1..Len(listed) : listed[i].kind = "Recovery")
        => /\ panicState = "recovered"
           /\ gresp = 500
           /\ ~InFlight

(* C16: ChainMiddleware(m1, ..., mn)(final) enters the middlewares in the
   listed order, m1 first; a middleware is entered only if every one before
   it called next, and final runs only if all n did. *)
C16_ListedOrderOutermostFirst ==
    /\ Len(trace) <= Len(listed)
    /\ \A i \in 1..Len(trace) :
          /\ trace[i].kind = listed[i].kind
          /\ i < Len(trace) => trace[i].next
    /\ handled =>
          /\ Len(trace) = Len(listed)
          /\ \A i \in 1..Len(trace) : trace[i].next

\* three middlewares listed, the second rejects: the third and the handler
\* never run
C16_Witness ==
    /\ Len(listed) = MaxChain
    /\ listed[1].kind = "Cors" /\ listed[2].kind = "Auth" /\ listed[3].kind = "Logging"
    /\ Len(trace) = 2
    /\ trace[1].next /\ ~trace[2].next
    /\ gresp = StatusUnauthorized
    /\ ~handled

(* C15: a handler's response with a 2xx status carries success = true, and
   one with success = false carries a status outside 2xx. *)
C15_SuccessFlagMatchesStatus ==
    (handled /\ gresp # 0) => (hbody.success <=> (gresp >= 200 /\ gresp <= 299))

(* C11: when Issue has stored the record and the delivery then fails, the
   record stays as stored: until it is consumed, superseded or expired the
   code verifies as Valid and can be resent; the caller is told
   DeliveryFailed, which a failed issuance (nothing stored) never reports. *)
C11_DeliveryFailureKeepsRecord ==
    /\ (sendRes.op = "send" /\ sendRes.outcome = "DeliveryFailed")
          => /\ sendRes.id # 0
             /\ (sendRes.issues = nissue /\ accepted[sendRes.id] = 0)
                   => LET rec == CreateOTPData(sendRes.email, sendRes.purpose,
                                               sendRes.code, sendRes.at, sendRes.id)
                      IN  /\ rec \in otpStore
                          /\ SendOTPWithExistingCode(otpStore, sendRes.email, sendRes.purpose,
                                                     sendRes.code, TRUE) = "Resent"
                          /\ ~IsOTPExpired(rec, now)
                                => Verify(otpStore, sendRes.email, sendRes.purpose,
                                          sendRes.code, now).result = "Valid"
    /\ (sendRes.op = "send" /\ sendRes.outcome = "InvalidRequest")
          => /\ sendRes.id = 0
             /\ RecordsOf(otpStore, sendRes.email, sendRes.purpose) = {}

\* the mail for the second issuance was not delivered; its code was then
\* presented and accepted
C11_Witness ==
    /\ sendRes.op = "send"
    /\ sendRes.outcome = "DeliveryFailed"
    /\ sendRes.id = MaxIssues
    /\ vres.result = "Valid"
    /\ vres.id = sendRes.id

====
